---- MODULE Spec2Model ----
(***************************************************************************)
(* physicsLab: the experiment lifecycle (Experiment.__init__, save, exit,  *)
(* the two scoped forms), the element registry, the wire set, the save     *)
(* document decoder and the element coordinate transform.                  *)
(*                                                                         *)
(* Numbers are fixed point: the integer n stands for n * 10^-5, so that    *)
(* round(num, 4) is a real rounding (to a multiple of 10).                 *)
(***************************************************************************)
EXTENDS Integers, Sequences, FiniteSets, TLC

VARIABLES
    files,       \* the file system: path -> document or NoFile
    jpgs,        \* the .sav paths that have a co-located .jpg preview
    stack,       \* _ExperimentStack.data: the open experiments, oldest first
    exps,        \* the Experiment objects constructed so far: id -> object
    scopes,      \* the with-blocks entered and not yet left, innermost last
    elementXYZ,  \* the process-wide coordinate-mode flag
    last,        \* the last call: what was asked, how it ended
    coord,       \* the coordinate transform's input and results
    rt,          \* an experiment, its encoded document and the decoded copy
    sav,         \* a file given to _open_sav, and what _open_sav returned
    heap         \* the Summary objects: which one each PlSav holds, and their Subject

vars == <<files, jpgs, stack, exps, scopes, elementXYZ, last, coord, rt, sav, heap>>

(***************************************************************************)
(* Bounds of the model.                                                    *)
(***************************************************************************)
MaxExp == 2       \* Experiment objects constructed in one run
MaxScopes == 1    \* nesting depth of with-blocks
MaxWires == 1     \* wires connected in one experiment
MaxElems == 1     \* elements created through crt_element beside a first one
MaxGrid == 2      \* grid coordinates range over -MaxGrid .. MaxGrid (x 0.5)

(***************************************************************************)
(* _tools.py                                                               *)
(***************************************************************************)
RoundStep == 10               \* 10^-4 in fixed point: round(num, 4)
Unit == RoundStep * 10000     \* 1.0 in fixed point

Abs(n) == IF n < 0 THEN -n ELSE n

\* a / b rounded to the nearest integer (b > 0), ties to even
DivRound(a, b) ==
    LET q == a \div b
        r == a - q * b
    IN  IF 2 * r < b THEN q
        ELSE IF 2 * r > b THEN q + 1
        ELSE IF q % 2 = 0 THEN q ELSE q + 1

round_data(num) == DivRound(num, RoundStep) * RoundStep

roundData(x, y, z) == <<round_data(x), round_data(y), round_data(z)>>

position(x, y, z) == <<x, y, z>>

(***************************************************************************)
(* electricity/_elementPosition.py                                         *)
(***************************************************************************)
XFactor == 15000         \* 0.15
YFactor == 7500          \* 0.075
ZFactor == 10000         \* 0.1
BigElementOffset == 4500 \* 0.045

\* v * f and v / f on fixed-point numbers
FMul(v, f) == DivRound(v * f, Unit)
FDiv(v, f) == DivRound(v * Unit, f)

translate(x, y, z, isBigElement) ==
    LET x1 == FMul(x, XFactor)
        y1 == FMul(y, YFactor)
        z1 == FMul(z, ZFactor)
    IN  <<x1, IF isBigElement THEN y1 + BigElementOffset ELSE y1, z1>>

change(x, y, z, isBigElement) ==
    LET x1 == FDiv(x, XFactor)
        y1 == FDiv(y, YFactor)
        z1 == FDiv(z, ZFactor)
    IN  <<x1, IF isBigElement THEN y1 - BigElementOffset ELSE y1, z1>>

set_elementXYZ(boolen) == elementXYZ' = boolen

(***************************************************************************)
(* Values: paths, names, documents.                                        *)
(***************************************************************************)
Circuit == "Circuit"
Celestial == "Celestial"
Electromagnetism == "Electromagnetism"
ExperimentType == {Circuit, Celestial, Electromagnetism}

\* OpenMode
load_by_filepath == "load_by_filepath"
load_by_sav_name == "load_by_sav_name"
load_by_plar_app == "load_by_plar_app"
crt == "crt"

\* Absolute paths. <<"old", n>>: a save file left in the save directory by an
\* earlier run; <<"rand", n>>: SAV_PATH_DIR/<randString(34)>.sav;
\* <<"cid", n>>: SAV_PATH_DIR/<content_id>.sav; <<"ext", n>>: a file outside
\* the save directory.
OldPaths == {<<"old", 1>>, <<"old", 2>>}
RandPaths == {<<"rand", n>> : n \in 1..MaxExp}
CidPaths == {<<"cid", 1>>}
ExtPaths == {<<"ext", 1>>}
SavDirPaths == OldPaths \cup RandPaths \cup CidPaths
Paths == SavDirPaths \cup ExtPaths

SavNames == {"T1", "T2"}
TemplateName == ""      \* InternalName of a template document

NoFile == [kind |-> "none"]
NoExp == [open_mode |-> "none"]
NoPath == <<"none", 0>>

\* Model names: the ModelID strings of documents and the class names of the
\* element catalogue. normalize is name.strip().replace(' ', '_').replace('-', '_').
normalize(name) ==
    CASE name = "Logic Input" -> "Logic_Input"
      [] name = "Simple Instrument" -> "Simple_Instrument"
      [] name = "8bit Input" -> "8bit_Input"
      [] name = "16bit Input" -> "16bit_Input"
      [] name = "Negative Charge" -> "Negative_Charge"
      [] OTHER -> name

\* the normalized names that start with a digit: "circuit.<name>(...)" is
\* then no Python expression, and eval raises SyntaxError
DigitNames == {"8bit_Input", "16bit_Input"}

\* the classes of physicsLab.circuit / celestial / electromagnetism
Catalogue(experiment_type) ==
    CASE experiment_type = Circuit ->
            {"Logic_Input", "Simple_Instrument", "eight_bit_Input"}
      [] experiment_type = Celestial -> {"Planet"}
      [] experiment_type = Electromagnetism -> {"Negative_Charge"}

\* the data["ModelID"] a constructed element of the class carries
ModelIDOf(cls) ==
    CASE cls = "Logic_Input" -> "Logic Input"
      [] cls = "Simple_Instrument" -> "Simple Instrument"
      [] cls = "eight_bit_Input" -> "8bit Input"
      [] cls = "Negative_Charge" -> "Negative Charge"
      [] OTHER -> cls

\* elements that need the y correction of the element coordinate system
is_bigElement(cls) == cls = "eight_bit_Input"

\* the one value of a singleton: Only({F(v) : v \in {e}}) is F(e) with e
\* evaluated once
Only(S) == CHOOSE x \in S : TRUE

Ok(v) == [err |-> "ok", val |-> v]
Raise(e) == [err |-> e]

(***************************************************************************)
(* Elements and the registry of an experiment: Elements (creation order)   *)
(* and _elements_position (position -> the elements there).                *)
(***************************************************************************)
\* native storage order is x, z, y
Swap(t) == <<t[1], t[3], t[2]>>

\* the key under which an element's data names its model: "Model" in the
\* celestial classes, "ModelID" in the others
ModelKey(cls) ==
    IF cls \in Catalogue(Celestial)
    THEN [Model |-> ModelIDOf(cls)]
    ELSE [ModelID |-> ModelIDOf(cls)]

\* the model an element dict names
ModelOf(data) == IF "Model" \in DOMAIN data THEN data.Model ELSE data.ModelID

\* the element constructors of the catalogue: the position is converted from
\* the element coordinate system when asked for, the object carries its data
\* dict, and the object is not yet registered
Construct(cls, x, y, z, is_elementXYZ, oid) ==
    LET p == IF is_elementXYZ
             THEN translate(x, y, z, is_bigElement(cls))
             ELSE <<x, y, z>>
        pos == roundData(p[1], p[2], p[3])
    IN  [oid |-> oid,
         position |-> pos,
         is_elementXYZ |-> is_elementXYZ,
         data |-> ModelKey(cls) @@
                  [Position |-> Swap(pos),
                   Rotation |-> <<0, 0, 0>>,
                   Properties |-> ("Locked" :> 1),
                   Identifier |-> <<"gen", oid>>]]

\* the constructor's last step: the object enters Elements and the position
\* index of the experiment
Register(e, obj) ==
    [e EXCEPT
        !.Elements = Append(@, obj),
        !.elements_position =
            IF obj.position \in DOMAIN @
            THEN [@ EXCEPT ![obj.position] = Append(@, obj.oid)]
            ELSE @ @@ (obj.position :> <<obj.oid>>),
        !.nobj = @ + 1]

\* crt_element: the checks, the normalisation and the dispatch; the result is
\* the constructed object or the error raised. typed stands for the
\* isinstance tests of name, x, y, z.
crt_element(experiment_type, typed, name, x, y, z, is_elementXYZ, oid) ==
    IF ~typed THEN Raise("TypeError")
    ELSE
        LET n == normalize(name)
            r == roundData(x, y, z)
            cls == IF experiment_type = Circuit /\ n = "8bit_Input"
                   THEN "eight_bit_Input" ELSE n
        IN  IF cls \in DigitNames
            THEN Raise("SyntaxError")
            ELSE IF cls \notin Catalogue(experiment_type)
            THEN Raise("AttributeError")
            ELSE Ok(Construct(cls, r[1], r[2], r[3],
                              experiment_type = Circuit /\ is_elementXYZ, oid))

\* elementXYZ=None takes the process-wide flag
ResolveXYZ(arg, flag) == IF arg = "None" THEN flag ELSE arg = "True"

\* set_rotation: the rotation is stored rounded, in native order
set_rotation(o, r_x, r_y, r_z) ==
    [o EXCEPT !.data.Rotation = Swap(roundData(r_x, r_y, r_z))]

\* remove(element): out of Elements and out of its bucket, and the wires on
\* its pins with it
del_element(e, oid) ==
    [e EXCEPT
        !.Elements = SelectSeq(@, LAMBDA o : o.oid # oid),
        !.elements_position =
            [p \in DOMAIN @ |-> SelectSeq(@[p], LAMBDA i : i # oid)],
        !.Wires = {w \in @ : w.Source.element_self # oid
                               /\ w.Target.element_self # oid}]

\* clear(): both structures emptied (and the wires with them)
clear_elements(e) ==
    [e EXCEPT !.Elements = <<>>, !.elements_position = <<>>, !.Wires = {}]

(***************************************************************************)
(* Wires. A wire is a pair of pins and a colour; Experiment.Wires is a set *)
(* under the equality of Wire, which ignores the direction.                *)
(***************************************************************************)
Pin(element_self, pinLabel) == [element_self |-> element_self, pinLabel |-> pinLabel]

Wire(Source, Target, color) == [Source |-> Source, Target |-> Target, color |-> color]

\* Wire.__eq__ / __hash__
WireEq(a, b) ==
    /\ a.color = b.color
    /\ {a.Source, a.Target} = {b.Source, b.Target}

\* set.add under that equality
WiresAdd(W, w) == IF \E v \in W : WireEq(v, w) THEN W ELSE W \cup {w}

\* set.remove / discard under that equality
WiresDiscard(W, w) == {v \in W : ~WireEq(v, w)}

\* the first element whose data["Identifier"] is the one asked for
get_element_from_identifier(e, identifier) ==
    LET hits == SelectSeq(e.Elements, LAMBDA o : o.data.Identifier = identifier)
    IN  IF hits = <<>> THEN Raise("ExperimentError") ELSE Ok(hits[1].oid)

(***************************************************************************)
(* Decoding the StatusSave of a loaded document.                           *)
(***************************************************************************)
\* the keys with the pitch prefix, in document order
PitchKeys == <<"Pitch", "Pitch1", "Pitch2">>
NoteKeys == <<"Pitch1", "Pitch2">>
InstrumentKeys == {"Pitch", "Velocity", "RatedVoltage", "Ideal", "Pulse"}

bool(v) == IF v = 0 THEN 0 ELSE 1

\* Simple_Instrument(x, y, z, elementXYZ=False, instrument=.., pitch=.., ...)
Simple_Instrument(x, y, z, P, oid) ==
    LET o == Construct("Simple_Instrument", x, y, z, FALSE, oid)
        props ==
            ("Instrument" :> (IF "Instrument" \in DOMAIN P THEN P["Instrument"] ELSE 0))
            @@ ("Pitch" :> P["Pitch"])
            @@ ("Velocity" :> P["Velocity"])
            @@ ("RatedVoltage" :> P["RatedVoltage"])
            @@ ("Ideal" :> bool(P["Ideal"]))
            @@ ("Pulse" :> bool(P["Pulse"]))
            @@ ("Locked" :> 1)
    IN  [o EXCEPT !.data.Properties = props]

\* Simple_Instrument.add_note: a pitch the instrument does not play yet takes
\* the next free pitch key
add_note(o, pitch) ==
    LET P == o.data.Properties
        held == {P[k] : k \in {PitchKeys[i] : i \in 1..Len(PitchKeys)} \cap DOMAIN P}
        free == SelectSeq(NoteKeys, LAMBDA k : k \notin DOMAIN P)
    IN  IF pitch \in held \/ free = <<>> THEN o
        ELSE [o EXCEPT !.data.Properties = (free[1] :> pitch) @@ P]

RECURSIVE add_notes(_, _, _)
add_notes(o, P, i) ==
    IF i > Len(PitchKeys) THEN o
    ELSE IF PitchKeys[i] \in DOMAIN P
         THEN add_notes(add_note(o, P[PitchKeys[i]]), P, i + 1)
         ELSE add_notes(o, P, i + 1)

\* one turn of the loop of __load_elements: the object built from one element
\* dict of the document, or the error raised
load_element(experiment_type, element, oid) ==
    LET xzy == element.Position
        x == xzy[1]
        z == xzy[2]
        y == xzy[3]
        rotation == element.Rotation
    IN  IF experiment_type = Circuit
        THEN Only({
                IF r.err # "ok" THEN r
                ELSE Ok([set_rotation(r.val, rotation[1], rotation[3], rotation[2])
                            EXCEPT !.data.Identifier = element.Identifier]) :
                r \in {IF element.ModelID = "Simple Instrument"
                       THEN IF InstrumentKeys \subseteq DOMAIN element.Properties
                            THEN Ok(add_notes(
                                     Simple_Instrument(x, y, z, element.Properties, oid),
                                     element.Properties, 1))
                            ELSE Raise("KeyError")
                       ELSE Only({
                                IF c.err # "ok" THEN c
                                ELSE Ok([c.val EXCEPT !.data.Properties =
                                            ("Locked" :> 1) @@ element.Properties]) :
                                c \in {crt_element(Circuit, TRUE, element.ModelID,
                                                   x, y, z, FALSE, oid)}})}})
        ELSE Only({
                IF c.err # "ok" THEN c ELSE Ok([c.val EXCEPT !.data = element]) :
                c \in {crt_element(experiment_type, TRUE,
                                   IF experiment_type = Celestial
                                   THEN element.Model ELSE element.ModelID,
                                   x, y, z, FALSE, oid)}})

\* (mutant) __load_elements that returns after the first element
RECURSIVE load_elements_first_only(_, _, _)
load_elements_first_only(e, _elements, i) ==
    IF i > Len(_elements) \/ i > 1 THEN [err |-> "ok", exp |-> e]
    ELSE Only({
            IF r.err # "ok" THEN [err |-> r.err, exp |-> e]
            ELSE Only({load_elements_first_only(e1, _elements, i + 1) :
                        e1 \in {Register(e, r.val)}}) :
            r \in {load_element(e.experiment_type, _elements[i], e.nobj + 1)}})

\* __load_elements: the experiment after the loop, and the error that ended
\* it early (the elements decoded before the error stay registered)
RECURSIVE load_elements(_, _, _)
load_elements(e, _elements, i) ==
    IF i > Len(_elements) THEN [err |-> "ok", exp |-> e]
    ELSE Only({
            IF r.err # "ok" THEN [err |-> r.err, exp |-> e]
            ELSE Only({load_elements(e1, _elements, i + 1) :
                        e1 \in {Register(e, r.val)}}) :
            r \in {load_element(e.experiment_type, _elements[i], e.nobj + 1)}})

\* (mutant) a turn of __load_wires that makes the wire although an identifier
\* is carried by no element
load_wire_dangling(e, wire_dict) ==
    Only({
        Ok(Wire(Pin(IF s.err = "ok" THEN s.val ELSE 0, wire_dict.SourcePin),
                Pin(IF t.err = "ok" THEN t.val ELSE 0, wire_dict.TargetPin),
                wire_dict.ColorName[1])) :
        s \in {get_element_from_identifier(e, wire_dict.Source)},
        t \in {get_element_from_identifier(e, wire_dict.Target)}})

\* one turn of the loop of __load_wires
load_wire(e, wire_dict) ==
    Only({
        IF s.err # "ok" THEN s
        ELSE IF t.err # "ok" THEN t
        ELSE Ok(Wire(Pin(s.val, wire_dict.SourcePin),
                     Pin(t.val, wire_dict.TargetPin),
                     wire_dict.ColorName[1])) :
        s \in {get_element_from_identifier(e, wire_dict.Source)},
        t \in {get_element_from_identifier(e, wire_dict.Target)}})

\* (mutant) __load_wires that keeps every wire it reads, as a list would
RECURSIVE load_wires_as_list(_, _, _)
load_wires_as_list(e, _wires, i) ==
    IF i > Len(_wires) THEN [err |-> "ok", exp |-> e]
    ELSE Only({
            IF r.err # "ok" THEN [err |-> r.err, exp |-> e]
            ELSE Only({load_wires_as_list(e1, _wires, i + 1) :
                        e1 \in {[e EXCEPT !.Wires = @ \cup {r.val}]}}) :
            r \in {load_wire(e, _wires[i])}})

\* __load_wires
RECURSIVE load_wires(_, _, _)
load_wires(e, _wires, i) ==
    IF i > Len(_wires) THEN [err |-> "ok", exp |-> e]
    ELSE Only({
            IF r.err # "ok" THEN [err |-> r.err, exp |-> e]
            ELSE Only({load_wires(e1, _wires, i + 1) :
                        e1 \in {[e EXCEPT !.Wires = WiresAdd(@, r.val)]}}) :
            r \in {load_wire(e, _wires[i])}})

\* A JSON object is kept as the sequence of its <<key, value>> pairs in
\* document order (the order json.loads keeps); list(d.values())
DictValues(d) == [i \in 1..Len(d) |-> d[i][2]]

\* the tail of Experiment.__init__ for the three load modes: StatusSave is
\* decoded into the experiment that was just pushed
load_status(e, status_sav) ==
    Only({
        IF le.err # "ok" \/ e.experiment_type # Circuit THEN le
        ELSE Only({load_wires(e1, status_sav.Wires, 1) : e1 \in {le.exp}}) :
        le \in {load_elements(e,
                              IF e.experiment_type = Celestial
                              THEN DictValues(status_sav.Elements)
                              ELSE status_sav.Elements, 1)}})

(***************************************************************************)
(* Encoding: the document save() writes for an experiment.                 *)
(***************************************************************************)
RECURSIVE SetToSeq(_)
SetToSeq(S) ==
    IF S = {} THEN <<>>
    ELSE LET x == CHOOSE v \in S : TRUE IN <<x>> \o SetToSeq(S \ {x})

IdentifierOf(e, oid) ==
    LET hits == SelectSeq(e.Elements, LAMBDA o : o.oid = oid)
    IN  hits[1].data.Identifier

\* the ColorName of a colour ("蓝" -> "蓝色导线"); its first character is the colour
ColorName(color) == <<color, "wire">>

wire_dict_of(e, w) ==
    [Source |-> IdentifierOf(e, w.Source.element_self),
     SourcePin |-> w.Source.pinLabel,
     Target |-> IdentifierOf(e, w.Target.element_self),
     TargetPin |-> w.Target.pinLabel,
     ColorName |-> ColorName(w.color)]

StatusSave(e) ==
    [Elements |-> IF e.experiment_type = Celestial
                  THEN [i \in 1..Len(e.Elements) |->
                            <<e.Elements[i].data.Identifier, e.Elements[i].data>>]
                  ELSE [i \in 1..Len(e.Elements) |-> e.Elements[i].data],
     Wires |-> LET ws == SetToSeq(e.Wires)
               IN  [i \in 1..Len(ws) |-> wire_dict_of(e, ws[i])]]

\* the whole save document
encode(e) ==
    [kind |-> "sav",
     InternalName |-> e.InternalName,
     Type |-> e.experiment_type,
     StatusSave |-> StatusSave(e)]

(***************************************************************************)
(* _ExperimentStack and the file helpers.                                  *)
(***************************************************************************)
Range(q) == {q[i] : i \in 1..Len(q)}

\* _ExperimentStack.inside: an open experiment has the same SAV_PATH
inside(st, path) == \E i \in 1..Len(st.stack) : st.exps[st.stack[i]].SAV_PATH = path

\* _ExperimentStack.push
push(st, id) == [st EXCEPT !.stack = Append(@, id)]

\* _ExperimentStack.remove: the stack is keyed by the path, the entry that
\* holds the experiment's SAV_PATH goes
remove(st, id) ==
    [st EXCEPT !.stack =
        SelectSeq(@, LAMBDA i : st.exps[i].SAV_PATH # st.exps[id].SAV_PATH)]

\* _open_sav: the document of the file, or InvalidSavError
\* (the encodings tried are not distinguished here)
_open_sav(st, sav_path) ==
    IF st.files[sav_path].kind = "garbage" THEN Raise("InvalidSavError")
    ELSE Ok(st.files[sav_path])

\* The encodings of _open_sav. A file is described by the set of encodings
\* under which it reads and parses as JSON; "other" stands for every
\* encoding outside the three the code names (the locale's included, which
\* open() takes when chardet reports None).
Encodings == {"utf-8", "utf-8-sig", "gbk", "other"}
FallbackEncodings == <<"utf-8-sig", "gbk">>

\* _open_sav.encode_sav: the document read under the encoding, or None
encode_sav(parses, encoding) ==
    IF encoding \in parses THEN Ok(encoding) ELSE Raise("None")

\* the for loop of lines 83-86: the first fallback encoding that parses
RECURSIVE try_fallbacks(_, _)
try_fallbacks(parses, i) ==
    IF i > Len(FallbackEncodings) THEN Raise("None")
    ELSE IF encode_sav(parses, FallbackEncodings[i]).err = "ok"
         THEN encode_sav(parses, FallbackEncodings[i])
         ELSE try_fallbacks(parses, i + 1)

\* _open_sav with the encodings told apart: chardet says whether the import
\* of line 81 succeeds, detected is what chardet.detect reports for the file
open_sav_encodings(parses, chardet, detected) ==
    IF encode_sav(parses, "utf-8").err = "ok" THEN encode_sav(parses, "utf-8")
    ELSE IF ~chardet
         THEN IF try_fallbacks(parses, 1).err = "ok"
              THEN try_fallbacks(parses, 1)
              ELSE Raise("InvalidSavError")
         ELSE IF encode_sav(parses, detected).err = "ok"
              THEN encode_sav(parses, detected)
              ELSE Raise("InvalidSavError")

\* _get_all_pl_sav: the .sav files of the save directory
_get_all_pl_sav(st) == {p \in SavDirPaths : st.files[p] # NoFile}

\* search_experiment walks the directory in the order os.walk gives, which
\* is the file system's: the outcomes are those of every order. The walk ends
\* at the first file that matches (found), or at the first readable file
\* without an InternalName key (KeyError); with neither it returns None.
search_experiment(st, sav_name) ==
    LET readable == {p \in _get_all_pl_sav(st) : _open_sav(st, p).err = "ok"}
        keyless == {p \in readable : st.files[p].kind # "sav"}
        matches == {p \in readable \ keyless : st.files[p].InternalName = sav_name}
    IN  {Ok(p) : p \in matches}
        \cup (IF keyless # {} THEN {Raise("KeyError")} ELSE {})
        \cup (IF keyless = {} /\ matches = {} THEN {Ok(NoPath)} ELSE {})

\* randString(34): a token no earlier path carries
FreshPath(st) ==
    LET used == {p \in RandPaths :
                    \/ st.files[p] # NoFile
                    \/ \E i \in DOMAIN st.exps :
                          st.exps[i] # NoExp /\ st.exps[i].SAV_PATH = p}
        n == CHOOSE k \in 1..MaxExp :
                /\ <<"rand", k>> \notin used
                /\ \A j \in 1..(k - 1) : <<"rand", j>> \in used
    IN  <<"rand", n>>

NextId(st) == Cardinality({i \in DOMAIN st.exps : st.exps[i] # NoExp}) + 1

\* the object store with one more object (the model holds MaxExp objects: a
\* call that would construct one more is not taken)
Store(st, id, e) == IF id \in DOMAIN st.exps THEN [st EXCEPT !.exps[id] = e] ELSE st

(***************************************************************************)
(* Experiment.__init__                                                     *)
(***************************************************************************)
\* (mutant) a constructor that does not start from an empty position index
NewExperiment_stale_index(open_mode, path, experiment_type, name) ==
    [open_mode |-> open_mode,
     SAV_PATH |-> path,
     experiment_type |-> experiment_type,
     InternalName |-> name,
     Elements |-> <<>>,
     elements_position |-> (<<0, 0, 0>> :> <<1>>),
     Wires |-> {},
     nobj |-> 0,
     is_elementXYZ |-> FALSE,
     elementXYZ_origin_position |-> position(0, 0, 0),
     constructed |-> FALSE]

\* the attributes every mode sets before the push
NewExperiment(open_mode, path, experiment_type, name) ==
    [open_mode |-> open_mode,
     SAV_PATH |-> path,
     experiment_type |-> experiment_type,
     InternalName |-> name,
     Elements |-> <<>>,
     elements_position |-> <<>>,
     Wires |-> {},
     nobj |-> 0,
     is_elementXYZ |-> FALSE,
     elementXYZ_origin_position |-> position(0, 0, 0),
     constructed |-> FALSE]

\* how a constructor call ended: the error, the state it left, the object it
\* pushed (0: none) and the path it resolved (for crt: the save file found)
Outcome(err, st, id, path) ==
    [err |-> err, st |-> st, exp |-> id, path |-> path]

\* lines 295-324: the push, then the decoding of the document's StatusSave
\* into the pushed experiment. plsav is the loaded document.
push_and_load(st, e, plsav) ==
    Only({
        Outcome(r.err,
                push(Store(st, id, [r.exp EXCEPT !.constructed = (r.err = "ok")]), id),
                id, e.SAV_PATH) :
        id \in {NextId(st)}, r \in {load_status(e, plsav.StatusSave)}})

\* (mutant) load_by_filepath without the test of line 173
init_load_by_filepath_unchecked(st, typed, path) ==
    IF ~typed THEN Outcome("TypeError", st, 0, NoPath)
    ELSE IF st.files[path] = NoFile
    THEN Outcome("FileNotFoundError", st, 0, path)
    ELSE
        LET _temp == _open_sav(st, path)
        IN  IF _temp.err # "ok" THEN Outcome(_temp.err, st, 0, path)
            ELSE push_and_load(
                    st, NewExperiment(load_by_filepath, path, _temp.val.Type,
                                      IF _temp.val.kind = "sav"
                                      THEN _temp.val.InternalName ELSE TemplateName),
                    _temp.val)

\* OpenMode.load_by_filepath
init_load_by_filepath(st, typed, path) ==
    IF ~typed THEN Outcome("TypeError", st, 0, NoPath)
    ELSE IF st.files[path] = NoFile
    THEN Outcome("FileNotFoundError", st, 0, path)
    ELSE IF inside(st, path)
    THEN Outcome("ExperimentOpenedError", st, 0, path)
    ELSE
        LET _temp == _open_sav(st, path)
        IN  IF _temp.err # "ok" THEN Outcome(_temp.err, st, 0, path)
            ELSE
                LET doc == _temp.val
                    name == IF doc.kind = "sav" THEN doc.InternalName
                            ELSE TemplateName
                IN  push_and_load(
                        st, NewExperiment(load_by_filepath, path, doc.Type, name), doc)

\* (mutant) load_by_sav_name without the test of line 202
init_load_by_sav_name_unchecked(st, typed, sav_name, found) ==
    IF ~typed THEN Outcome("TypeError", st, 0, NoPath)
    ELSE IF found.err # "ok" THEN Outcome(found.err, st, 0, NoPath)
    ELSE IF found.val = NoPath
    THEN Outcome("ExperimentNotExistError", st, 0, NoPath)
    ELSE push_and_load(
            st, NewExperiment(load_by_sav_name, found.val, st.files[found.val].Type,
                              st.files[found.val].InternalName),
            st.files[found.val])

\* OpenMode.load_by_sav_name; found is what search_experiment returned
init_load_by_sav_name(st, typed, sav_name, found) ==
    IF ~typed THEN Outcome("TypeError", st, 0, NoPath)
    ELSE IF found.err # "ok" THEN Outcome(found.err, st, 0, NoPath)
    ELSE IF found.val = NoPath
    THEN Outcome("ExperimentNotExistError", st, 0, NoPath)
    ELSE IF inside(st, found.val)
    THEN Outcome("ExperimentOpenedError", st, 0, found.val)
    ELSE
        LET doc == st.files[found.val]
        IN  push_and_load(
                st, NewExperiment(load_by_sav_name, found.val, doc.Type,
                                  doc.InternalName), doc)

\* OpenMode.load_by_plar_app; reply is what the server sent for content_id:
\* a document, or the error of the failed request
init_load_by_plar_app(st, typed, content_id, reply) ==
    LET path == <<"cid", content_id>>
    IN  IF ~typed THEN Outcome("TypeError", st, 0, NoPath)
        ELSE IF inside(st, path)
        THEN Outcome("ExperimentOpenedError", st, 0, path)
        ELSE IF reply.err # "ok" THEN Outcome(reply.err, st, 0, path)
        ELSE push_and_load(
                st, NewExperiment(load_by_plar_app, path, reply.val.Type,
                                  TemplateName), reply.val)

\* OpenMode.crt; found is what search_experiment returned
init_crt(st, typed, sav_name, experiment_type, force_crt, found) ==
    IF ~typed THEN Outcome("TypeError", st, 0, NoPath)
    ELSE IF found.err # "ok" THEN Outcome(found.err, st, 0, NoPath)
    ELSE IF ~force_crt /\ found.val # NoPath
    THEN Outcome("ExperimentExistError", st, 0, found.val)
    ELSE
        LET st1 == IF force_crt /\ found.val # NoPath
                   THEN [st EXCEPT !.files[found.val] = NoFile,
                                   !.jpgs = @ \ {found.val}]
                   ELSE st
            path == FreshPath(st1)
            id == NextId(st1)
            e == [NewExperiment(crt, path, experiment_type, sav_name)
                    EXCEPT !.constructed = TRUE]
        IN  Outcome("ok", push(Store(st1, id, e), id), id, found.val)

(***************************************************************************)
(* save and exit (both refuse a closed experiment, one whose path is not   *)
(* on the stack).                                                          *)
(***************************************************************************)
\* save(extra_filepath): the document is written to SAV_PATH, and to the
\* extra path when one is given; the stack is left alone
save(st, id, extra_filepath) ==
    IF ~inside(st, st.exps[id].SAV_PATH)
    THEN [err |-> "ExperimentClosedError", st |-> st]
    ELSE
        LET doc == encode(st.exps[id])
            f1 == [st.files EXCEPT ![st.exps[id].SAV_PATH] = doc]
            f2 == IF extra_filepath = NoPath THEN f1
                  ELSE [f1 EXCEPT ![extra_filepath] = doc]
        IN  [err |-> "ok",
             st |-> [st EXCEPT !.files = f2, !.did = Append(@, "save")]]

\* exit(delete): the stack entry goes; with delete the file goes too
exit(st, id, delete) ==
    IF ~inside(st, st.exps[id].SAV_PATH)
    THEN [err |-> "ExperimentClosedError", st |-> st]
    ELSE
        LET path == st.exps[id].SAV_PATH
            st1 == remove(st, id)
            st2 == IF delete
                   THEN [st1 EXCEPT !.files[path] = NoFile, !.jpgs = @ \ {path}]
                   ELSE st1
        IN  [err |-> "ok", st |-> [st2 EXCEPT !.did = Append(@, "exit")]]

(***************************************************************************)
(* The scoped forms.                                                       *)
(***************************************************************************)
\* (mutant) Experiment.__exit__ that exits before it saves
Experiment__exit__exit_first(st, id, exc) ==
    IF ~exc /\ inside(st, st.exps[id].SAV_PATH)
    THEN LET x == exit(st, id, FALSE)
         IN  IF x.err # "ok" THEN x ELSE save(x.st, id, NoPath)
    ELSE [err |-> "ok", st |-> st]

\* Experiment.__exit__
Experiment__exit__(st, id, exc) ==
    IF ~exc /\ inside(st, st.exps[id].SAV_PATH)
    THEN LET s == save(st, id, NoPath)
         IN  IF s.err # "ok" THEN s ELSE exit(s.st, id, FALSE)
    ELSE [err |-> "ok", st |-> st]

\* experiment.__exit__; sc holds the arguments kept by experiment.__init__
experiment__exit__(st, sc, exc) ==
    IF exc THEN exit(st, sc.exp, FALSE)
    ELSE IF sc.is_exit THEN exit(st, sc.exp, FALSE)
    ELSE
        LET s == IF sc.write /\ ~sc.delete
                 THEN save(st, sc.exp, sc.extra_filepath)
                 ELSE [err |-> "ok", st |-> st]
        IN  IF s.err # "ok" THEN s ELSE exit(s.st, sc.exp, sc.delete)

\* (mutant) the flag is set before the experiment type is looked at
experiment__enter__flag_first(st, a, found) ==
    LET o == IF a.force_crt
             THEN init_crt(st, TRUE, a.sav_name, a.experiment_type, TRUE, found)
             ELSE
                LET l == init_load_by_sav_name(st, TRUE, a.sav_name, found)
                IN  IF l.err = "ExperimentNotExistError"
                    THEN init_crt(st, TRUE, a.sav_name, a.experiment_type,
                                  FALSE, found)
                    ELSE l
    IN  IF o.err # "ok" \/ o.exp \notin DOMAIN o.st.exps THEN o
        ELSE
            LET st1 == IF ~a.read
                       THEN [o.st EXCEPT !.exps[o.exp] = clear_elements(@)]
                       ELSE o.st
                st2 == IF a.elementXYZ THEN [st1 EXCEPT !.flag = TRUE] ELSE st1
            IN  IF a.elementXYZ /\ st2.exps[o.exp].experiment_type # Circuit
                THEN [o EXCEPT !.err = "ExperimentTypeError",
                               !.st = remove(st2, o.exp)]
                ELSE [o EXCEPT !.st = st2]

\* experiment.__enter__; found is what the first search_experiment returned
experiment__enter__(st, a, found) ==
    LET o == IF a.force_crt
             THEN init_crt(st, TRUE, a.sav_name, a.experiment_type, TRUE, found)
             ELSE
                LET l == init_load_by_sav_name(st, TRUE, a.sav_name, found)
                IN  IF l.err = "ExperimentNotExistError"
                    THEN init_crt(st, TRUE, a.sav_name, a.experiment_type,
                                  FALSE, found)
                    ELSE l
    IN  IF o.err # "ok" \/ o.exp \notin DOMAIN o.st.exps THEN o   \* (or past MaxExp)
        ELSE
            LET st1 == IF ~a.read
                       THEN [o.st EXCEPT !.exps[o.exp] = clear_elements(@)]
                       ELSE o.st
            IN  IF a.elementXYZ
                THEN IF st1.exps[o.exp].experiment_type # Circuit
                     THEN [o EXCEPT !.err = "ExperimentTypeError",
                                    !.st = remove(st1, o.exp)]
                     ELSE [o EXCEPT !.st = [st1 EXCEPT !.flag = TRUE]]
                ELSE [o EXCEPT !.st = st1]

(***************************************************************************)
(* The documents the runs start from and the server sends.                 *)
(***************************************************************************)
ElementDict(ModelID, Position, Locked, n) ==
    [ModelID |-> ModelID,
     Position |-> Position,
     Rotation |-> <<0, 9000000, 0>>,
     Properties |-> ("Locked" :> Locked),
     Identifier |-> <<"doc", n>>]

WireDict(s, sp, t, tp, color) ==
    [Source |-> <<"doc", s>>, SourcePin |-> sp,
     Target |-> <<"doc", t>>, TargetPin |-> tp,
     ColorName |-> ColorName(color)]

\* two elements, one wire listed in both directions
DocGood(name) ==
    [kind |-> "sav", InternalName |-> name, Type |-> Circuit,
     StatusSave |->
        [Elements |-> <<ElementDict("Logic Input", <<0, 0, 0>>, 1, 1),
                        ElementDict("Logic Input", <<15000, 0, 3>>, 0, 2)>>,
         Wires |-> <<WireDict(1, 0, 2, 1, "blue"), WireDict(2, 1, 1, 0, "blue")>>]]

\* the second element is of no class of the catalogue
DocBadElement(name) ==
    [kind |-> "sav", InternalName |-> name, Type |-> Circuit,
     StatusSave |->
        [Elements |-> <<ElementDict("Logic Input", <<0, 0, 0>>, 1, 1),
                        ElementDict("Nope", <<0, 0, 0>>, 1, 2)>>,
         Wires |-> <<>>]]

\* the wire's target is no element of the document
DocBadWire(name) ==
    [kind |-> "sav", InternalName |-> name, Type |-> Circuit,
     StatusSave |->
        [Elements |-> <<ElementDict("Logic Input", <<0, 0, 0>>, 1, 1)>>,
         Wires |-> <<WireDict(1, 0, 7, 0, "red")>>]]

\* an element dict of a Celestial document
PlanetDict(Model, Position, n) ==
    [Model |-> Model,
     Position |-> Position,
     Rotation |-> <<0, 0, 0>>,
     Properties |-> ("Locked" :> 0),
     Identifier |-> <<"doc", n>>]

\* Elements is a mapping, keyed by the identifiers
DocCelestial(name) ==
    [kind |-> "sav", InternalName |-> name, Type |-> Celestial,
     StatusSave |->
        [Elements |-> << <<(<<"doc", 1>>), PlanetDict("Planet", <<0, 0, 0>>, 1)>>,
                         <<(<<"doc", 2>>), PlanetDict("Planet", <<15000, 0, 3>>, 2)>> >>,
         Wires |-> <<>>]]

\* a save exported by the application: the Experiment part alone
DocExport ==
    [kind |-> "export", Type |-> Circuit,
     StatusSave |->
        [Elements |-> <<ElementDict("Logic Input", <<0, 0, 0>>, 1, 1)>>,
         Wires |-> <<>>]]

\* a file that is no JSON under any encoding
Garbage == [kind |-> "garbage"]

\* what the server sends for a content id
RemoteReplies ==
    {Raise("ResponseFail"),
     Ok([DocExport EXCEPT !.Type = Electromagnetism,
            !.StatusSave.Elements = <<ElementDict("Negative Charge", <<0, 0, 0>>, 1, 1)>>]),
     Ok([DocExport EXCEPT
            !.StatusSave.Elements = <<ElementDict("Nope", <<0, 0, 0>>, 1, 1)>>])}

(***************************************************************************)
(* The state machine.                                                      *)
(***************************************************************************)
ExpIds == 1..MaxExp

\* the program state the operations work on
State ==
    [files |-> files, jpgs |-> jpgs, stack |-> stack, exps |-> exps,
     flag |-> elementXYZ, did |-> <<>>]

Becomes(st) ==
    /\ files' = st.files
    /\ jpgs' = st.jpgs
    /\ stack' = st.stack
    /\ exps' = st.exps
    /\ elementXYZ' = st.flag

\* what is kept of the arguments of a call: exists, whether a save file (or a
\* wire) like the one named was there when the call was made; flag, the
\* boolean argument (force_crt, delete, the exception, elementXYZ)
NoArgs == [exists |-> FALSE, flag |-> FALSE]

\* whether the save directory holds a save file with that InternalName
Exists(sav_name) ==
    \E p \in SavDirPaths :
        /\ files[p] # NoFile
        /\ files[p].kind = "sav"
        /\ files[p].InternalName = sav_name

Last(op, args, err, exp, path, wasInside, did) ==
    [op |-> op, args |-> args, err |-> err, exp |-> exp, path |-> path,
     wasInside |-> wasInside, did |-> did]

NoScopeArgs ==
    [delete |-> FALSE, write |-> TRUE, is_exit |-> FALSE, extra_filepath |-> NoPath]

\* with Experiment(...) as e: the scope is entered when the constructor returns
Entered(o, scoped) ==
    IF scoped /\ o.err = "ok"
    THEN Append(scopes, [kind |-> "Experiment", exp |-> o.exp] @@ NoScopeArgs)
    ELSE scopes

CanOpen(scoped) == scoped => Len(scopes) < MaxScopes

\* a call that constructs an object needs an object of the bound left
Opened(o, op, args, scoped) ==
    /\ o.exp <= MaxExp
    /\ Becomes(o.st)
    /\ scopes' = Entered(o, scoped)
    /\ last' = Last(op, args, o.err, o.exp, o.path,
                     o.path # NoPath /\ inside(State, o.path), <<>>)
    /\ UNCHANGED <<coord, rt, sav, heap>>

LoadByFilepath(path, typed, scoped) ==
    /\ CanOpen(scoped)
    /\ \E o \in {init_load_by_filepath(State, typed, path)} :
          Opened(o, load_by_filepath,
                 [NoArgs EXCEPT !.exists = files[path] # NoFile], scoped)

LoadBySavName(sav_name, typed, scoped) ==
    /\ CanOpen(scoped)
    /\ \E found \in search_experiment(State, sav_name) :
          \E o \in {init_load_by_sav_name(State, typed, sav_name, found)} :
             Opened(o, load_by_sav_name,
                    [NoArgs EXCEPT !.exists = Exists(sav_name)], scoped)

LoadByPlarApp(content_id, typed, scoped) ==
    /\ CanOpen(scoped)
    /\ \E reply \in RemoteReplies :
          \E o \in {init_load_by_plar_app(State, typed, content_id, reply)} :
             Opened(o, load_by_plar_app, NoArgs, scoped)

Crt(sav_name, experiment_type, force_crt, typed, scoped) ==
    /\ CanOpen(scoped)
    /\ \E found \in search_experiment(State, sav_name) :
          \E o \in {init_crt(State, typed, sav_name, experiment_type,
                              force_crt, found)} :
             Opened(o, crt,
                    [NoArgs EXCEPT !.exists = Exists(sav_name), !.flag = force_crt],
                    scoped)

\* the experiments the caller holds a reference to
Held == {i \in ExpIds : exps[i] # NoExp /\ exps[i].constructed}

Save(id, extra_filepath) ==
    /\ id \in Held
    /\ \E r \in {save(State, id, extra_filepath)} :
           /\ Becomes(r.st)
           /\ last' = Last("save", NoArgs, r.err, id,
                            exps[id].SAV_PATH, id \in Range(stack), r.st.did)
    /\ UNCHANGED <<scopes, coord, rt, sav, heap>>

Exit(id, delete) ==
    /\ id \in Held
    /\ \E r \in {exit(State, id, delete)} :
           /\ Becomes(r.st)
           /\ last' = Last("exit", [NoArgs EXCEPT !.flag = delete], r.err, id,
                            exps[id].SAV_PATH, id \in Range(stack), r.st.did)
    /\ UNCHANGED <<scopes, coord, rt, sav, heap>>

\* the innermost with-block is left, normally or by an exception
ScopeExit(exc) ==
    /\ scopes # <<>>
    /\ \E sc \in {scopes[Len(scopes)]} :
       \E r \in {IF sc.kind = "Experiment"
                  THEN Experiment__exit__(State, sc.exp, exc)
                  ELSE experiment__exit__(State, sc, exc)} :
           /\ Becomes(r.st)
           /\ last' = Last(IF sc.kind = "Experiment" THEN "Experiment.__exit__"
                                                     ELSE "experiment.__exit__",
                            [NoArgs EXCEPT !.flag = exc], r.err, sc.exp, exps[sc.exp].SAV_PATH,
                            sc.exp \in Range(stack), r.st.did)
    /\ scopes' = SubSeq(scopes, 1, Len(scopes) - 1)
    /\ UNCHANGED <<coord, rt, sav, heap>>

\* with experiment(sav_name, ...) as e
HelperEnter(a) ==
    /\ Len(scopes) < MaxScopes
    /\ \E found \in search_experiment(State, a.sav_name) :
          \E o \in {experiment__enter__(State, a, found)} :
              /\ o.exp <= MaxExp
              /\ Becomes(o.st)
              /\ scopes' = IF o.err = "ok"
                            THEN Append(scopes,
                                    [kind |-> "experiment", exp |-> o.exp,
                                     delete |-> a.delete, write |-> a.write,
                                     is_exit |-> a.is_exit,
                                     extra_filepath |-> a.extra_filepath])
                            ELSE scopes
              /\ last' = Last("experiment.__enter__",
                               [NoArgs EXCEPT !.flag = a.elementXYZ], o.err, o.exp, o.path,
                               o.path # NoPath /\ inside(State, o.path), <<>>)
    /\ UNCHANGED <<coord, rt, sav, heap>>

HelperArgs ==
    {[sav_name |-> n, read |-> r, elementXYZ |-> x, experiment_type |-> t,
      force_crt |-> f, extra_filepath |-> NoPath] @@ w :
        n \in SavNames, r \in BOOLEAN, x \in BOOLEAN, t \in {Circuit, Celestial},
        f \in BOOLEAN,
        w \in {[delete |-> FALSE, write |-> TRUE, is_exit |-> FALSE],
               [delete |-> TRUE, write |-> TRUE, is_exit |-> FALSE],
               [delete |-> FALSE, write |-> FALSE, is_exit |-> FALSE],
               [delete |-> FALSE, write |-> TRUE, is_exit |-> TRUE]}}

(***************************************************************************)
(* Elements and wires of an open experiment.                               *)
(***************************************************************************)
\* the experiment the element constructors register in: the top of the stack
Current == stack[Len(stack)]

GridValues == {k * (Unit \div 2) : k \in -MaxGrid..MaxGrid}
ElementNames == {"Logic Input", "8bit Input", "16bit Input", "Planet", "Nope"}

\* the name, normalized, is that of an element of the experiment type
KnownName(experiment_type, name) ==
    \/ normalize(name) \in Catalogue(experiment_type)
    \/ experiment_type = Circuit /\ normalize(name) = "8bit_Input"
Places == {<<Unit, 0, 3>>}
Colors == {"blue", "red"}
MaxObjs == MaxElems + 1      \* objects of one experiment, loaded ones included

Touched(op, args, err, id) ==
    /\ last' = Last(op, args, err, id, exps[id].SAV_PATH, TRUE, <<>>)
    /\ UNCHANGED <<files, jpgs, stack, scopes, elementXYZ, coord, rt, sav, heap>>

CrtElement(id, typed, name, place, arg) ==
    /\ id \in Held /\ id \in Range(stack)
    /\ exps[Current].nobj < MaxObjs
    /\ \E r \in {crt_element(exps[id].experiment_type, typed, name,
                               place[1], place[2], place[3],
                               ResolveXYZ(arg, elementXYZ), exps[Current].nobj + 1)} :
           \E nx \in {IF r.err = "ok"
                       THEN [exps EXCEPT ![Current] = Register(@, r.val)]
                       ELSE exps} :
               /\ exps' = nx
               /\ last' = Last("crt_element",
                                [exists |-> KnownName(exps[id].experiment_type, name),
                                 flag |-> typed],
                                r.err, id, exps[id].SAV_PATH, TRUE,
                                IF nx = exps THEN <<>> ELSE <<"register">>)
    /\ UNCHANGED <<files, jpgs, stack, scopes, elementXYZ, coord, rt, sav, heap>>

DelElement(id, oid) ==
    /\ id \in Held /\ id \in Range(stack)
    /\ \E i \in 1..Len(exps[id].Elements) : exps[id].Elements[i].oid = oid
    /\ exps' = [exps EXCEPT ![id] = del_element(@, oid)]
    /\ Touched("del_element", NoArgs, "ok", id)

ClearElements(id) ==
    /\ id \in Held /\ id \in Range(stack)
    /\ exps' = [exps EXCEPT ![id] = clear_elements(@)]
    /\ Touched("clear_elements", NoArgs, "ok", id)

\* a property of an element is edited
SetProperty(id, i, key, val) ==
    /\ id \in Held /\ id \in Range(stack)
    /\ i \in 1..Len(exps[id].Elements)
    /\ exps' = [exps EXCEPT ![id].Elements[i].data.Properties =
                    (key :> val) @@ @]
    /\ Touched("set_property", NoArgs, "ok", id)

\* crt_wire(pinA, pinB, color)
CrtWire(id, a, pa, b, pb, color) ==
    /\ id \in Held /\ id \in Range(stack)
    /\ exps[id].experiment_type = Circuit
    /\ {a, b} \subseteq {exps[id].Elements[i].oid : i \in 1..Len(exps[id].Elements)}
    /\ LET w == Wire(Pin(a, pa), Pin(b, pb), color)
       IN  /\ Cardinality(WiresAdd(exps[id].Wires, w)) <= MaxWires
           /\ exps' = [exps EXCEPT ![id].Wires = WiresAdd(@, w)]
           /\ Touched("crt_wire",
                      [NoArgs EXCEPT !.exists = \E v \in exps[id].Wires : WireEq(v, w)],
                      "ok", id)

\* del_wire(wire)
DelWire(id, w) ==
    /\ id \in Held /\ id \in Range(stack)
    /\ w \in exps[id].Wires
    /\ exps' = [exps EXCEPT ![id].Wires = WiresDiscard(@, w)]
    /\ Touched("del_wire", NoArgs, "ok", id)

\* (mutant) the toggle converts the experiments and elements already there
SetElementXYZ_retroactive(boolen) ==
    /\ set_elementXYZ(boolen)
    /\ exps' = [i \in DOMAIN exps |->
                    IF exps[i] = NoExp THEN NoExp
                    ELSE [exps[i] EXCEPT
                            !.is_elementXYZ = boolen,
                            !.Elements = [k \in DOMAIN @ |->
                                            [@[k] EXCEPT !.is_elementXYZ = boolen]]]]
    /\ last' = Last("set_elementXYZ", [NoArgs EXCEPT !.flag = boolen], "ok", 0, NoPath, FALSE, <<>>)
    /\ UNCHANGED <<files, jpgs, stack, scopes, coord, rt, sav, heap>>

SetElementXYZ(boolen) ==
    /\ set_elementXYZ(boolen)
    /\ last' = Last("set_elementXYZ", [NoArgs EXCEPT !.flag = boolen], "ok", 0, NoPath, FALSE, <<>>)
    /\ UNCHANGED <<files, jpgs, stack, exps, scopes, coord, rt, sav, heap>>

(***************************************************************************)
(* The coordinate transform, run on its own.                               *)
(***************************************************************************)
CoordIdle == [phase |-> "idle"]

Translate ==
    /\ coord.phase = "grid"
    /\ coord' = [coord EXCEPT
                    !.phase = "native",
                    !.native = translate(coord.x, coord.y, coord.z, coord.isBigElement)]
    /\ UNCHANGED <<files, jpgs, stack, exps, scopes, elementXYZ, last, rt, sav, heap>>

Change ==
    /\ coord.phase = "native"
    /\ coord' = [coord EXCEPT
                    !.phase = "back",
                    !.back = change(coord.native[1], coord.native[2],
                                    coord.native[3], coord.isBigElement)]
    /\ UNCHANGED <<files, jpgs, stack, exps, scopes, elementXYZ, last, rt, sav, heap>>

(***************************************************************************)
(* Encoding and decoding, run on their own.                                *)
(***************************************************************************)
RtIdle == [phase |-> "idle"]

\* no file is being opened by _open_sav on its own
SavIdle == [phase |-> "idle"]
HeapIdle == [phase |-> "idle"]

Encode ==
    /\ rt.phase = "exp"
    /\ rt' = [rt EXCEPT !.phase = "doc", !.doc = encode(rt.exp)]
    /\ UNCHANGED <<files, jpgs, stack, exps, scopes, elementXYZ, last, coord, sav, heap>>

\* the document is loaded as Experiment.__init__ loads it
Decode ==
    /\ rt.phase = "doc"
    /\ \E r \in {load_status(
                       NewExperiment(load_by_filepath, rt.exp.SAV_PATH, rt.doc.Type,
                                     rt.doc.InternalName),
                       rt.doc.StatusSave)} :
          rt' = [rt EXCEPT !.phase = "back", !.back = r.exp, !.err = r.err]
    /\ UNCHANGED <<files, jpgs, stack, exps, scopes, elementXYZ, last, coord, sav, heap>>

(***************************************************************************)
(* Initial states and specifications.                                      *)
(***************************************************************************)
NoCall == Last("none", NoArgs, "ok", 0, NoPath, FALSE, <<>>)

\* the save directory and the other files as a run finds them
Directory(a, b, c) ==
    [p \in Paths |->
        CASE p = <<"old", 1>> -> a
          [] p = <<"old", 2>> -> b
          [] p = <<"ext", 1>> -> c
          [] OTHER -> NoFile]

\* two saves of one name; an unreadable file and a save that does not
\* decode; an exported save (no InternalName) in the save directory
Directories ==
    {Directory(DocGood("T1"), DocCelestial("T1"), DocBadWire("T1")),
     Directory(Garbage, DocBadElement("T2"), DocExport),
     Directory(DocExport, DocCelestial("T1"), NoFile)}

Idle ==
    /\ stack = <<>>
    /\ exps = [i \in ExpIds |-> NoExp]
    /\ scopes = <<>>
    /\ elementXYZ = FALSE
    /\ last = NoCall

Init ==
    /\ files \in Directories
    /\ jpgs = {p \in {<<"old", 1>>} : files[p].kind = "sav"}
    /\ Idle
    /\ coord = CoordIdle
    /\ rt = RtIdle
    /\ sav = SavIdle
    /\ heap = HeapIdle

Next ==
    \/ \E path \in Paths, typed, scoped \in BOOLEAN :
          LoadByFilepath(path, typed, scoped)
    \/ \E sav_name \in SavNames, typed, scoped \in BOOLEAN :
          LoadBySavName(sav_name, typed, scoped)
    \/ \E typed, scoped \in BOOLEAN : LoadByPlarApp(1, typed, scoped)
    \/ \E sav_name \in SavNames, force_crt, typed, scoped \in BOOLEAN :
          Crt(sav_name, Circuit, force_crt, typed, scoped)
    \/ \E id \in ExpIds : Save(id, NoPath)
    \/ \E id \in ExpIds, delete \in BOOLEAN : Exit(id, delete)
    \/ \E exc \in BOOLEAN : ScopeExit(exc)

Spec == Init /\ [][Next]_vars

\* the deprecated scoped form, experiment(sav_name, ...), beside the calls an
\* experiment opened by it takes
NextHelper ==
    \/ \E a \in HelperArgs : HelperEnter(a)
    \/ \E exc \in BOOLEAN : ScopeExit(exc)
    \/ \E id \in ExpIds, delete \in BOOLEAN : Exit(id, delete)
    \/ \E id \in ExpIds : Save(id, NoPath)
    \/ \E boolen \in BOOLEAN : SetElementXYZ(boolen)

SpecHelper == Init /\ [][NextHelper]_vars

\* one directory, and the operations on the elements and wires of the
\* experiments opened from it
InitElem ==
    /\ files = [p \in Paths |->
                    CASE p = <<"old", 1>> -> DocGood("T1")
                      [] p = <<"old", 2>> -> DocCelestial("T2")
                      [] OTHER -> NoFile]
    /\ jpgs = {}
    /\ Idle
    /\ coord = CoordIdle
    /\ rt = RtIdle
    /\ sav = SavIdle
    /\ heap = HeapIdle

NextElem ==
    \/ \E path \in OldPaths : stack = <<>> /\ LoadByFilepath(path, TRUE, FALSE)
    \/ \E t \in {Circuit, Celestial} :
          stack = <<>> /\ Crt("T2", t, TRUE, TRUE, FALSE)
    \/ \E id \in ExpIds, typed \in BOOLEAN, name \in ElementNames,
          place \in Places, arg \in {"None", "True"} :
          CrtElement(id, typed, name, place, arg)
    \/ \E id \in ExpIds, oid \in 1..MaxObjs : DelElement(id, oid)
    \/ \E id \in ExpIds : ClearElements(id)
    \/ \E id \in ExpIds, val \in {0, 1} : SetProperty(id, 1, "Locked", val)
    \/ \E id \in ExpIds, a, b \in 1..2, pa, pb \in {0, 1} :
          CrtWire(id, a, pa, b, pb, "blue")
    \/ \E id \in ExpIds : \E w \in (IF exps[id] = NoExp THEN {} ELSE exps[id].Wires) :
          DelWire(id, w)
    \/ \E boolen \in BOOLEAN : SetElementXYZ(boolen)

SpecElem == InitElem /\ [][NextElem]_vars

\* the coordinate transform on every grid position of the bounds
InitCoord ==
    /\ files = [p \in Paths |-> NoFile]
    /\ jpgs = {}
    /\ Idle
    /\ rt = RtIdle
    /\ sav = SavIdle
    /\ heap = HeapIdle
    /\ \E x, y, z \in GridValues, isBigElement \in BOOLEAN :
          coord = [phase |-> "grid", x |-> x, y |-> y, z |-> z,
                   isBigElement |-> isBigElement,
                   native |-> <<0, 0, 0>>, back |-> <<0, 0, 0>>]

NextCoord == Translate \/ Change

SpecCoord == InitCoord /\ [][NextCoord]_vars

\* the experiments of the bounds: up to two elements, each locked or not,
\* and (in a circuit of two elements) up to one wire
RtObject(cls, place, Locked, oid) ==
    [Construct(cls, place[1], place[2], place[3], FALSE, oid)
        EXCEPT !.data.Properties = ("Locked" :> Locked)]

RtObjects(t, oid) ==
    {RtObject(cls, place, Locked, oid) :
        cls \in Catalogue(t) \ {"Simple_Instrument"},
        place \in Places, Locked \in {0, 1}}

RtEmpty(t) == NewExperiment(crt, <<"rand", 1>>, t, "T1")

RtExperiments ==
    UNION {
        {RtEmpty(t)}
        \cup {Register(RtEmpty(t), o1) : o1 \in RtObjects(t, 1)}
        \cup {[Register(Register(RtEmpty(t), o1), o2) EXCEPT !.Wires = W] :
                o1 \in RtObjects(t, 1), o2 \in RtObjects(t, 2),
                W \in IF t = Circuit
                      THEN {{}, {Wire(Pin(1, 0), Pin(2, 1), "blue")},
                            {Wire(Pin(2, 1), Pin(1, 0), "red")}}
                      ELSE {{}}}
        : t \in ExperimentType}

InitRt ==
    /\ files = [p \in Paths |-> NoFile]
    /\ jpgs = {}
    /\ Idle
    /\ coord = CoordIdle
    /\ sav = SavIdle
    /\ heap = HeapIdle
    /\ \E e \in RtExperiments :
          rt = [phase |-> "exp", exp |-> e, doc |-> NoFile, back |-> NoExp,
                err |-> "ok"]

NextRt == Encode \/ Decode

SpecRt == InitRt /\ [][NextRt]_vars

(***************************************************************************)
(* Properties.                                                             *)
(***************************************************************************)
LoadModes == {load_by_filepath, load_by_sav_name, load_by_plar_app}
OpenModes == LoadModes \cup {crt}
ScopeExits == {"Experiment.__exit__", "experiment.__exit__"}

\* the experiments that were opened and are on the stack no more
Closed == {i \in Held : i \notin Range(stack)}

\* the last call was an exit of a scope
LeftScope == last.op \in ScopeExits

C2_UniquePaths ==
    \A i, j \in 1..Len(stack) :
        i # j => exps[stack[i]].SAV_PATH # exps[stack[j]].SAV_PATH

\* C2's case: two experiments are open and a load of the path of one of them
\* has just been refused
C2_Witness ==
    /\ Len(stack) = 2
    /\ last.op \in LoadModes
    /\ last.wasInside
    /\ last.err = "ExperimentOpenedError"

\* C3 (as stated): after every exit of a scope the experiment is not on the
\* stack, and when the scope was left by an error no save was made.
C3_Original ==
    LeftScope =>
        /\ last.exp \notin Range(stack)
        /\ last.args.flag => "save" \notin Range(last.did)

\* C4: a scope of an Experiment left without an error, the experiment still
\* open: the document is saved, then the experiment exits; the entry is off
\* the stack and the file is there, holding the document.
C4_SaveThenExit ==
    (/\ last.op = "Experiment.__exit__"
     /\ ~last.args.flag
     /\ last.wasInside)
    => /\ last.err = "ok"
       /\ last.did = <<"save", "exit">>
       /\ last.exp \notin Range(stack)
       /\ files[last.path] = encode(exps[last.exp])

\* C4's case: such a scope exit has happened, on an experiment that was loaded
C4_Witness ==
    /\ last.op = "Experiment.__exit__"
    /\ ~last.args.flag
    /\ last.wasInside
    /\ last.did = <<"save", "exit">>
    /\ exps[last.exp].open_mode \in LoadModes
    /\ Len(exps[last.exp].Elements) > 0

\* C5 (as stated): an entry is on the stack only by a construction that
\* succeeded: a constructor call that raised has pushed nothing.
C5_Original ==
    /\ \A k \in 1..Len(stack) : exps[stack[k]].constructed
    /\ (last.op \in OpenModes /\ last.err # "ok") => last.exp = 0

\* C6 (as stated): crt with the name of a save file that exists: without
\* force_crt it raises ExperimentExistError, the file stays and nothing is
\* pushed; with force_crt it succeeds and the file and its .jpg are gone.
C6_Original ==
    (/\ last.op = crt
     /\ last.err # "TypeError"
     /\ last.args.exists)
    => IF ~last.args.flag
       THEN /\ last.err = "ExperimentExistError"
            /\ last.exp = 0
            /\ files[last.path] # NoFile
       ELSE /\ last.err = "ok"
            /\ last.exp \in Range(stack)
            /\ files[last.path] = NoFile
            /\ last.path \notin jpgs

\* C7 (as stated): change after translate gives the grid position back, up
\* to the rounding step, for both values of isBigElement.
C7_Original ==
    coord.phase = "back" =>
        /\ Abs(coord.back[1] - coord.x) <= RoundStep
        /\ Abs(coord.back[2] - coord.y) <= RoundStep
        /\ Abs(coord.back[3] - coord.z) <= RoundStep

\* the identifiers the position index holds for position p
Bucket(e, p) == IF p \in DOMAIN e.elements_position
                THEN Range(e.elements_position[p]) ELSE {}

\* C8: an element is in Elements if and only if it is in the bucket of its
\* position in the position index, after every creation, load, removal and
\* clear; an experiment that crt has just made has both empty.
C8_IndexAgrees ==
    /\ \A i \in ExpIds : exps[i] # NoExp =>
          /\ \A k \in 1..Len(exps[i].Elements) :
                exps[i].Elements[k].oid \in Bucket(exps[i], exps[i].Elements[k].position)
          /\ \A p \in DOMAIN exps[i].elements_position :
                \A oid \in Bucket(exps[i], p) :
                   \E k \in 1..Len(exps[i].Elements) :
                      /\ exps[i].Elements[k].oid = oid
                      /\ exps[i].Elements[k].position = p
    /\ (last.op = crt /\ last.err = "ok") =>
          /\ exps[last.exp].Elements = <<>>
          /\ DOMAIN exps[last.exp].elements_position = {}

\* C8's case: an element of a loaded experiment was removed and another stays
C8_Witness ==
    /\ last.op = "del_element"
    /\ exps[last.exp].open_mode = load_by_filepath
    /\ Len(exps[last.exp].Elements) = 1
    /\ Bucket(exps[last.exp], exps[last.exp].Elements[1].position)
          = {exps[last.exp].Elements[1].oid}

\* the wires of both are the same up to direction
SameWires(V, W) ==
    /\ \A v \in V : \E w \in W : WireEq(v, w)
    /\ \A w \in W : \E v \in V : WireEq(v, w)

\* C9 (as stated): the document encode makes of an experiment decodes into the
\* same elements (model id, position, rotation, properties) and the same wires.
C9_Original ==
    rt.phase = "back" =>
        /\ rt.err = "ok"
        /\ Len(rt.back.Elements) = Len(rt.exp.Elements)
        /\ \A k \in 1..Len(rt.exp.Elements) :
              /\ ModelOf(rt.back.Elements[k].data) = ModelOf(rt.exp.Elements[k].data)
              /\ rt.back.Elements[k].data.Position = rt.exp.Elements[k].data.Position
              /\ rt.back.Elements[k].data.Rotation = rt.exp.Elements[k].data.Rotation
              /\ rt.back.Elements[k].data.Properties = rt.exp.Elements[k].data.Properties
        /\ SameWires(rt.back.Wires, rt.exp.Wires)

\* C10: for every wire of an experiment, exactly one wire of its Wires joins
\* those two pins with that colour, in either direction: so after crt_wire of
\* a wire that is there, straight or swapped, and so after the load of a
\* document that lists a wire twice (the document of the runs lists its one
\* wire in both directions: one wire is loaded).
C10_OneWire ==
    /\ \A i \in ExpIds : exps[i] # NoExp =>
          \A v \in exps[i].Wires :
             Cardinality({w \in exps[i].Wires : WireEq(v, w)}) = 1
    /\ (last.op = load_by_filepath /\ last.err = "ok"
            /\ exps[last.exp].experiment_type = Circuit) =>
          Cardinality(exps[last.exp].Wires) = 1

\* C10's case: the document listed the wire in both directions, and the wire
\* was then connected once more
C10_Witness ==
    /\ last.op = "crt_wire"
    /\ last.args.exists
    /\ exps[last.exp].open_mode = load_by_filepath
    /\ Cardinality(exps[last.exp].Wires) = 1
    /\ \E w \in exps[last.exp].Wires : w.Source.element_self = 1

\* the object identifiers of the elements of an experiment
Oids(e) == {e.Elements[k].oid : k \in 1..Len(e.Elements)}

\* the wire w of experiment e is the one the document's wire_dict describes,
\* in the direction written or the other
Decodes(e, w, wire_dict) ==
    /\ {w.Source.element_self, w.Target.element_self} \subseteq Oids(e)
    /\ w.color = wire_dict.ColorName[1]
    /\ \/ /\ IdentifierOf(e, w.Source.element_self) = wire_dict.Source
          /\ w.Source.pinLabel = wire_dict.SourcePin
          /\ IdentifierOf(e, w.Target.element_self) = wire_dict.Target
          /\ w.Target.pinLabel = wire_dict.TargetPin
       \/ /\ IdentifierOf(e, w.Source.element_self) = wire_dict.Target
          /\ w.Source.pinLabel = wire_dict.TargetPin
          /\ IdentifierOf(e, w.Target.element_self) = wire_dict.Source
          /\ w.Target.pinLabel = wire_dict.SourcePin

\* the last call built an experiment from the file at last.path
LoadedFromFile ==
    /\ last.op \in {load_by_filepath, load_by_sav_name}
    /\ last.exp # 0
    /\ exps[last.exp].experiment_type = Circuit

\* the identifiers the elements of a document carry
DocIdentifiers(doc) ==
    {doc.StatusSave.Elements[k].Identifier : k \in 1..Len(doc.StatusSave.Elements)}

\* C11: the endpoints of every wire of an experiment are elements of that
\* experiment; after a load that succeeded the wires are those of the
\* document, each Source and Target resolved to the element that carries the
\* identifier; and when every element of the document was decoded and a wire
\* of it names an identifier no element carries, the load has failed and no
\* wire was made for it.
C11_WiresResolved ==
    /\ \A i \in ExpIds : exps[i] # NoExp =>
          \A w \in exps[i].Wires :
             {w.Source.element_self, w.Target.element_self} \subseteq Oids(exps[i])
    /\ (LoadedFromFile /\ last.err = "ok") =>
          LET e == exps[last.exp]
              ws == files[last.path].StatusSave.Wires
          IN  /\ \A k \in 1..Len(ws) : \E w \in e.Wires : Decodes(e, w, ws[k])
              /\ \A w \in e.Wires : \E k \in 1..Len(ws) : Decodes(e, w, ws[k])
    /\ (/\ LoadedFromFile
        /\ Len(exps[last.exp].Elements) = Len(files[last.path].StatusSave.Elements)
        /\ \E k \in 1..Len(files[last.path].StatusSave.Wires) :
              {files[last.path].StatusSave.Wires[k].Source,
               files[last.path].StatusSave.Wires[k].Target}
                 \ DocIdentifiers(files[last.path]) # {})
       => /\ last.err = "ExperimentError"
          /\ ~exps[last.exp].constructed
          /\ \A w \in exps[last.exp].Wires :
                \E k \in 1..Len(files[last.path].StatusSave.Wires) :
                   Decodes(exps[last.exp], w, files[last.path].StatusSave.Wires[k])

\* C11's case: a document whose wire names an identifier that no element of
\* it carries was loaded, and the load failed with no wire made
C11_Witness ==
    /\ LoadedFromFile
    /\ last.err = "ExperimentError"
    /\ Len(files[last.path].StatusSave.Wires) = 1
    /\ exps[last.exp].Wires = {}
    /\ Len(exps[last.exp].Elements) = 1

\* C12 (as stated): a load by name fails with ExperimentNotExistError
\* whenever no save file of the directory has the InternalName, whatever else
\* the directory holds; when one has it, the load opens a file of that name
\* (or refuses it as already open, or fails decoding it).
C12_Original ==
    (last.op = load_by_sav_name /\ last.err # "TypeError") =>
        IF ~last.args.exists
        THEN last.err = "ExperimentNotExistError"
        ELSE /\ last.err \notin {"ExperimentNotExistError", "KeyError"}
             /\ last.path # NoPath
             /\ last.err = "ok" =>
                   exps[last.exp].InternalName = files[last.path].InternalName

(***************************************************************************)
(* _open_sav on its own: every file of the encodings, with and without     *)
(* chardet.                                                                *)
(***************************************************************************)
OpenSav ==
    /\ sav.phase = "file"
    /\ sav' = [sav EXCEPT
                  !.phase = "done",
                  !.res = open_sav_encodings(sav.parses, sav.chardet, sav.detected)]
    /\ UNCHANGED <<files, jpgs, stack, exps, scopes, elementXYZ, last, coord, rt, heap>>

InitSav ==
    /\ files = [p \in Paths |-> NoFile]
    /\ jpgs = {}
    /\ Idle
    /\ coord = CoordIdle
    /\ rt = RtIdle
    /\ heap = HeapIdle
    /\ \E parses \in SUBSET Encodings, chardet \in BOOLEAN, detected \in Encodings :
          sav = [phase |-> "file", parses |-> parses, chardet |-> chardet,
                 detected |-> detected, res |-> Raise("None")]

NextSav == OpenSav

SpecSav == InitSav /\ [][NextSav]_vars

\* the encodings the claim names, in the order it names them
NamedEncodings == <<"utf-8", "utf-8-sig", "gbk">>

\* C13 (as stated): _open_sav returns the document of the first of utf-8,
\* utf-8-sig, gbk under which the file parses, and raises InvalidSavError
\* only when it parses under none of the three, with chardet or without.
C13_Original ==
    sav.phase = "done" =>
        IF \E i \in 1..3 : NamedEncodings[i] \in sav.parses
        THEN \E i \in 1..3 :
                /\ NamedEncodings[i] \in sav.parses
                /\ \A j \in 1..(i - 1) : NamedEncodings[j] \notin sav.parses
                /\ sav.res = Ok(NamedEncodings[i])
        ELSE sav.res = Raise("InvalidSavError")

\* the element dicts of a document's StatusSave, in document order: the
\* values of the mapping for a Celestial document, the entries of the
\* sequence for the others
DocEntries(doc) ==
    IF doc.Type = Celestial
    THEN [i \in 1..Len(doc.StatusSave.Elements) |-> doc.StatusSave.Elements[i][2]]
    ELSE doc.StatusSave.Elements

\* C14: a decoded document yields one element per entry of its Elements: per
\* value of the mapping for a Celestial document (here even in the order of
\* the document), per entry of the sequence, in order, for a Circuit or
\* Electromagnetism document; each element is the one its entry describes.
C14_OnePerEntry ==
    rt.phase = "back" =>
        /\ rt.err = "ok"
        /\ Len(rt.back.Elements) = Len(DocEntries(rt.doc))
        /\ \A k \in 1..Len(rt.back.Elements) :
              /\ ModelOf(rt.back.Elements[k].data) = ModelOf(DocEntries(rt.doc)[k])
              /\ rt.back.Elements[k].data.Position = DocEntries(rt.doc)[k].Position
              /\ rt.back.Elements[k].data.Identifier = DocEntries(rt.doc)[k].Identifier
              /\ rt.doc.Type # Circuit =>
                    rt.back.Elements[k].data = DocEntries(rt.doc)[k]

\* C14's case: a Celestial document with a mapping of two entries was decoded
C14_Witness ==
    /\ rt.phase = "back"
    /\ rt.doc.Type = Celestial
    /\ Len(rt.doc.StatusSave.Elements) = 2
    /\ rt.doc.StatusSave.Elements[1][1] # rt.doc.StatusSave.Elements[2][1]
    /\ Len(rt.back.Elements) = 2

\* C15: create fails with a type error when the name is no string or a
\* coordinate no number, and with a lookup error when the normalized name is
\* not in the catalogue of the experiment's type; a failing create adds no
\* element to Elements or to the position index
C15_Original ==
    last.op = "crt_element" =>
        /\ ~last.args.flag => last.err = "TypeError"
        /\ last.args.flag /\ ~last.args.exists => last.err = "AttributeError"
        /\ last.err # "ok" => last.did = <<>>

C17_OnlyFlag ==
    [][last'.op = "set_elementXYZ"
       => /\ elementXYZ' = last'.args.flag
          /\ exps' = exps
          /\ stack' = stack
          /\ files' = files /\ jpgs' = jpgs]_vars

C17_Witness ==
    /\ last.op = "set_elementXYZ"
    /\ elementXYZ
    /\ \E i \in Range(stack) :
          /\ ~exps[i].is_elementXYZ
          /\ exps[i].elementXYZ_origin_position = position(0, 0, 0)
          /\ \E k \in DOMAIN exps[i].Elements :
                /\ ~exps[i].Elements[k].is_elementXYZ
                /\ exps[i].Elements[k].position[1] = Unit

\* C18 (as stated): the scope of an Experiment on which exit() was called
\* inside the scope is left without a save and without an entry leaving the
\* stack, also when another experiment was opened at the same path in between
C18_Original ==
    (/\ last.op = "Experiment.__exit__"
     /\ ~last.wasInside)
    => /\ "save" \notin Range(last.did)
       /\ "exit" \notin Range(last.did)

(***************************************************************************)
(* The documents as objects: which Summary object an experiment's PlSav    *)
(* holds. savTemplate.Circuit, .Celestial and .Electromagnetism are module *)
(* globals; copy.deepcopy gives an object of its own, an assignment gives  *)
(* the object itself.                                                      *)
(***************************************************************************)
NoRef == <<"none", 0>>
TemplateRef(type) == <<"savTemplate", type>>
OwnRef(k) == <<"PlSav", k>>
Refs == {TemplateRef(t) : t \in ExperimentType} \cup {OwnRef(k) : k \in 1..MaxExp}

\* the Subject of a template's Summary, as the module defines it
TemplateSubject == "None"

\* the shapes of a document read from a file: with the Experiment key and a
\* Summary, with the Experiment key and a null Summary, and without the
\* Experiment key (what the application exports)
DocShapes == {"full", "null_summary", "bare"}

\* lines 178-190 and __load, lines 334-335: the Summary object the loaded
\* PlSav holds, and the heap after the load. hp maps a reference to the
\* Subject of the Summary object it names.
load_PlSav(hp, k, shape, type, subject) ==
    CASE shape = "full" ->
            [ref |-> OwnRef(k), hp |-> [hp EXCEPT ![OwnRef(k)] = subject]]
      [] shape = "bare" ->
            \* copy.deepcopy(savTemplate.<type>); its Summary is not None
            [ref |-> OwnRef(k),
             hp |-> [hp EXCEPT ![OwnRef(k)] = hp[TemplateRef(type)]]]
      [] shape = "null_summary" ->
            \* self.PlSav["Summary"] = savTemplate.Circuit["Summary"]
            [ref |-> TemplateRef(Circuit), hp |-> hp]

\* lines 262-291: crt copies the template of the type, then entitles the copy
crt_PlSav(hp, k, type, sav_name) ==
    [ref |-> OwnRef(k), hp |-> [hp EXCEPT ![OwnRef(k)] = sav_name]]

\* entitle(sav_name): the Subject of the experiment's Summary is assigned
entitle(hp, ref, sav_name) == [hp EXCEPT ![ref] = sav_name]

TplLoad(k, shape, type, subject) ==
    /\ heap.phase = "heap"
    /\ heap.PlSav[k] = NoRef
    /\ \E r \in {load_PlSav(heap.Summary, k, shape, type, subject)} :
          heap' = [heap EXCEPT !.PlSav[k] = r.ref, !.Summary = r.hp]
    /\ UNCHANGED <<files, jpgs, stack, exps, scopes, elementXYZ, last, coord, rt, sav>>

TplCrt(k, type, sav_name) ==
    /\ heap.phase = "heap"
    /\ heap.PlSav[k] = NoRef
    /\ \E r \in {crt_PlSav(heap.Summary, k, type, sav_name)} :
          heap' = [heap EXCEPT !.PlSav[k] = r.ref, !.Summary = r.hp]
    /\ UNCHANGED <<files, jpgs, stack, exps, scopes, elementXYZ, last, coord, rt, sav>>

TplEntitle(k, sav_name) ==
    /\ heap.phase = "heap"
    /\ heap.PlSav[k] # NoRef
    /\ heap' = [heap EXCEPT !.Summary = entitle(@, heap.PlSav[k], sav_name)]
    /\ UNCHANGED <<files, jpgs, stack, exps, scopes, elementXYZ, last, coord, rt, sav>>

TplExit(k) ==
    /\ heap.phase = "heap"
    /\ heap.PlSav[k] # NoRef
    /\ heap' = [heap EXCEPT !.PlSav[k] = NoRef]
    /\ UNCHANGED <<files, jpgs, stack, exps, scopes, elementXYZ, last, coord, rt, sav>>

\* the templates as the module defines them, and no experiment open
InitTpl ==
    /\ files = [p \in Paths |-> NoFile]
    /\ jpgs = {}
    /\ Idle
    /\ coord = CoordIdle
    /\ rt = RtIdle
    /\ sav = SavIdle
    /\ heap = [phase |-> "heap",
               Summary |-> [r \in Refs |-> TemplateSubject],
               PlSav |-> [k \in 1..MaxExp |-> NoRef]]

NextTpl ==
    \/ \E k \in 1..MaxExp, shape \in DocShapes, type \in ExperimentType,
          subject \in SavNames : TplLoad(k, shape, type, subject)
    \/ \E k \in 1..MaxExp, type \in ExperimentType, sav_name \in SavNames :
          TplCrt(k, type, sav_name)
    \/ \E k \in 1..MaxExp, sav_name \in SavNames : TplEntitle(k, sav_name)
    \/ \E k \in 1..MaxExp : TplExit(k)

SpecTpl == InitTpl /\ [][NextTpl]_vars

\* C19 (as stated): every experiment's document is a copy of its own: no
\* template's Summary is changed by what is done to an experiment, no open
\* experiment holds a template's Summary, and no two open experiments hold
\* the same Summary object
C19_Original ==
    heap.phase = "heap" =>
        /\ \A t \in ExperimentType : heap.Summary[TemplateRef(t)] = TemplateSubject
        /\ \A k \in 1..MaxExp :
              heap.PlSav[k] \notin {TemplateRef(t) : t \in ExperimentType}
        /\ \A k, j \in 1..MaxExp :
              (k # j /\ heap.PlSav[k] # NoRef) => heap.PlSav[k] # heap.PlSav[j]

\* C20 (as stated): crt with force_crt deletes no save file of an experiment
\* that is on the stack: after it, the file every open experiment was loaded
\* from is still there
C20_Original ==
    (last.op = crt /\ last.args.flag) =>
        \A k \in 1..Len(stack) :
            (/\ exps[stack[k]].constructed
             /\ exps[stack[k]].open_mode \in {load_by_filepath, load_by_sav_name})
            => files[exps[stack[k]].SAV_PATH] # NoFile

(***************************************************************************)
(* Creation, save and exit alone, from a save directory in which no two    *)
(* files carry the same InternalName.                                      *)
(***************************************************************************)
InitCrt ==
    /\ files = [p \in Paths |->
                    CASE p = <<"old", 1>> -> DocGood("T1")
                      [] p = <<"old", 2>> -> DocCelestial("T2")
                      [] OTHER -> NoFile]
    /\ jpgs = {<<"old", 1>>}
    /\ Idle
    /\ coord = CoordIdle
    /\ rt = RtIdle
    /\ sav = SavIdle
    /\ heap = HeapIdle

NextCrt ==
    \/ \E sav_name \in SavNames \cup {"T3"}, force_crt, scoped \in BOOLEAN :
          Crt(sav_name, Circuit, force_crt, TRUE, scoped)
    \/ \E id \in ExpIds : Save(id, NoPath)
    \/ \E id \in ExpIds, delete \in BOOLEAN : Exit(id, delete)
    \/ \E exc \in BOOLEAN : ScopeExit(exc)

SpecCrt == InitCrt /\ [][NextCrt]_vars

\* C21 (as stated): after any sequence of crt (with force_crt or without),
\* save() and exit() from a save directory with unique InternalNames, no two
\* save files of the directory carry the same InternalName
C21_Original ==
    \A p, q \in SavDirPaths :
        (/\ p # q
         /\ files[p].kind = "sav"
         /\ files[q].kind = "sav")
        => files[p].InternalName # files[q].InternalName

====
